---- MODULE Spec2Model ----
(***************************************************************************)
(* The notebook Infotrie.ipynb as a sequential program: one action per     *)
(* code cell (the window generator's while loop one action per iteration). *)
(* A dataframe is a record [columns, index, data]: the ordered column      *)
(* names, the ordered row labels and, per column, the values by position.  *)
(* Prices, sentiments and R2 scores are integers; NaN is a reserved value. *)
(***************************************************************************)
EXTENDS Integers, Sequences, FiniteSets, TLC

VARIABLES
    input,                 \* the table read from the CSV file (never changes)
    pc,                    \* the cell the run executes next
    df, out,               \* the table of cells 3-4 and the printed notices
    df0, df1,              \* the forward-filled table, the engineered table
    train_sets, test_sets,
    train_set_start, train_set_end, test_set_start, test_set_end,
    cursor,                \* turns completed of the for loop being executed
    rng,                   \* state of the global random generator
    random_feature_bags,   \* dict as the sequence of its <<key, bag>> items
    oracle,                \* selects the data-dependent scores fit/score return
    res, avg_r2s,          \* results per bag; the last bag's ridge averages
    r2_to_bags, best_bags

vars == << input, pc, df, out, df0, df1, train_sets, test_sets,
           train_set_start, train_set_end, test_set_start, test_set_end,
           cursor, rng, random_feature_bags, oracle, res, avg_r2s,
           r2_to_bags, best_bags >>

(***************************** bounds **************************************)
MaxRows == 3
MaxWindows == 2
MaxSeed == 1
MaxOracle == 3

(***************************** sequences ***********************************)
Range(s) == { s[i] : i \in DOMAIN s }

Min(a, b) == IF a < b THEN a ELSE b

RECURSIVE SeqSum(_)
SeqSum(s) == IF s = << >> THEN 0 ELSE Head(s) + SeqSum(Tail(s))

\* the elements of s, in order, that are not in the set names
Filter(s, names) == SelectSeq(s, LAMBDA x : x \notin names)

\* position (1-based) of the first occurrence of x in s, 0 when absent
IndexOf(s, x) ==
    IF x \in Range(s) THEN CHOOSE i \in DOMAIN s : s[i] = x /\ \A j \in 1..(i-1) : s[j] # x
    ELSE 0

(***************************** values **************************************)
NaN == -1

Digits == << "0", "1", "2", "3", "4", "5", "6", "7", "8", "9" >>

RECURSIVE Str(_)
\* str(i) of a non-negative integer
Str(i) == IF i < 10 THEN Digits[i + 1] ELSE Str(i \div 10) \o Digits[(i % 10) + 1]

\* col.startswith(prefix)
StartsWith(col, prefix) ==
    Len(col) >= Len(prefix) /\ SubSeq(col, 1, Len(prefix)) = prefix

(***************************** dataframes **********************************)
EmptyTable == [columns |-> << >>, index |-> << >>, data |-> << >>]

HasCols(t, names) == names \subseteq Range(t.columns)

AnyEqual(t, a, b) == \E i \in DOMAIN t.index : t.data[a][i] = t.data[b][i]

\* (t[a] == t[b]).all()
AllEqual(t, a, b) == \A i \in DOMAIN t.index : t.data[a][i] = t.data[b][i]

\* (t[a] == v).all()
AllValue(t, a, v) == \A i \in DOMAIN t.index : t.data[a][i] = v

\* t.drop(names, axis = 1), for names that are columns of t
Drop(t, names) ==
    [columns |-> Filter(t.columns, names),
     index   |-> t.index,
     data    |-> [c \in Range(t.columns) \ names |-> t.data[c]]]

\* t.rename(columns = {old: new}); a table without the column old is unchanged
Rename(t, old, new) ==
    IF old \notin Range(t.columns) THEN t
    ELSE [columns |-> [i \in DOMAIN t.columns |->
                          IF t.columns[i] = old THEN new ELSE t.columns[i]],
          index   |-> t.index,
          data    |-> [c \in (Range(t.columns) \ {old}) \cup {new} |->
                          IF c = new THEN t.data[old] ELSE t.data[c]]]

\* pd.concat([t, DataFrame(newdata)], axis = 1) for new columns (named by
\* names, in that order) that carry the row labels of t
Concat(t, names, newdata) ==
    [columns |-> t.columns \o names,
     index   |-> t.index,
     data    |-> [c \in Range(t.columns) \cup Range(names) |->
                     IF c \in Range(names) THEN newdata[c] ELSE t.data[c]]]

ShiftForward(t, c, i) ==
    [j \in DOMAIN t.index |-> IF j + i \in DOMAIN t.index THEN t.data[c][j + i] ELSE NaN]

\* t[c].shift(i): the value of the row i positions earlier (later for i < 0),
\* NaN where there is no such row
Shift(t, c, i) ==
    [j \in DOMAIN t.index |-> IF j - i \in DOMAIN t.index THEN t.data[c][j - i] ELSE NaN]

RowsReversed(t, keep) ==
    [columns |-> t.columns,
     index   |-> [i \in DOMAIN keep |-> t.index[keep[Len(keep) + 1 - i]]],
     data    |-> [c \in Range(t.columns) |->
                     [i \in DOMAIN keep |-> t.data[c][keep[Len(keep) + 1 - i]]]]]

\* the rows of t at the positions keep, in that order
Rows(t, keep) ==
    [columns |-> t.columns,
     index   |-> [i \in DOMAIN keep |-> t.index[keep[i]]],
     data    |-> [c \in Range(t.columns) |-> [i \in DOMAIN keep |-> t.data[c][keep[i]]]]]

NullRowsAll(t) == { i \in DOMAIN t.index : \A c \in Range(t.columns) : t.data[c][i] = NaN }

\* the positions of the rows of t that hold a NaN
NullRows(t) == { i \in DOMAIN t.index : \E c \in Range(t.columns) : t.data[c][i] = NaN }

\* t.dropna(): the rows without any NaN, in order
Dropna(t) == Rows(t, Filter([i \in DOMAIN t.index |-> i], NullRows(t)))

SliceInclusive(t, a, b) == SubSeq(t.index, Min(a, Len(t.index)) + 1, Min(b + 1, Len(t.index)))

\* t[a:b]: the row labels at positions a .. b-1 (0-based), clipped to the table
Slice(t, a, b) ==
    LET n  == Len(t.index)
        lo == Min(a, n)
        hi == Min(b, n)
    IN  IF hi <= lo THEN << >> ELSE SubSeq(t.index, lo + 1, hi)

(***************************** the input ***********************************)
\* the schema of the CSV file, reduced to the columns the code names plus one
\* further pSma column and one further untouched column
InputColumns ==
    << "date", "pOpen", "pHigh", "pLow", "pClose", "pVolume", "pSma_3", "pSma_7",
       "sHigh", "sLow", "sOpen", "sClose", "sBuzz", "sVolume", "sentiment",
       "SumSentiment", "AvgSentiment", "sSma_3", "match" >>

PCandidates == { "pHigh", "pLow", "pClose" }
SCandidates == { "sHigh", "sLow", "sOpen", "sClose", "sBuzz", "SumSentiment", "AvgSentiment" }
PriceColumns == { "pOpen", "pSma_3", "pSma_7" }

\* the regular value of column c on row r: one row per day, prices and
\* sentiments that change every day, duplicates of the reference column when
\* pSame / sSame
Regular(c, r, pSame, sSame) ==
    CASE c = "date" -> r + 1
      [] c \in PriceColumns -> 10 + r
      [] c \in PCandidates -> IF pSame THEN 10 + r ELSE 11 + r
      [] c = "pVolume" -> IF pSame THEN 0 ELSE 1
      [] c = "sentiment" -> 50 + r
      [] c = "sSma_3" -> 50 + r
      [] c \in SCandidates -> IF sSame THEN 50 + r ELSE 51 + r
      [] c = "sVolume" -> 7
      [] c = "match" -> (r % 2 = 0)

\* an irregular value: a missing (zero) price, a flipped flag or volume, a
\* candidate that leaves / joins its reference
Irregular(c, v) ==
    CASE c \in PriceColumns -> 0
      [] c = "match" -> ~v
      [] c = "pVolume" -> 1 - v
      [] OTHER -> v - 1

\* the table of n rows whose column focus is irregular on the rows of mask
InputTable(n, pSame, sSame, focus, mask) ==
    [columns |-> InputColumns,
     index   |-> [i \in 1..n |-> i - 1],
     data    |-> [c \in Range(InputColumns) |-> [i \in 1..n |->
                     IF c = focus /\ (i - 1) \in mask
                     THEN Irregular(c, Regular(c, i - 1, pSame, sSame))
                     ELSE Regular(c, i - 1, pSame, sSame)]]]

(***************************** cleaning cells ******************************)
identical_columns ==
    << << "pOpen", << "pHigh", "pLow", "pClose" >> >>,
       << "sentiment", << "sHigh", "sLow", "sOpen", "sClose", "sBuzz",
                          "SumSentiment", "AvgSentiment" >> >> >>

\* one turn of the inner loop: compare col with ref, print and drop when they
\* agree on every row; st is [df, out, ok], ok false once a lookup has failed
DedupStep(st, ref, col) ==
    IF ~st.ok THEN st
    ELSE IF ~HasCols(st.df, {ref, col}) THEN [st EXCEPT !.ok = FALSE]
    ELSE IF AllEqual(st.df, ref, col)
         THEN [df  |-> Drop(st.df, {col}),
               out |-> Append(st.out, "removing " \o col \o "(same as " \o ref \o ")"),
               ok  |-> TRUE]
         ELSE st

RECURSIVE DedupCols(_, _, _)
DedupCols(st, ref, cols) ==
    IF cols = << >> THEN st
    ELSE DedupCols(DedupStep(st, ref, Head(cols)), ref, Tail(cols))

RECURSIVE DedupAll(_, _)
DedupAll(st, groups) ==
    IF groups = << >> THEN st
    ELSE DedupAll(DedupCols(st, Head(groups)[1], Head(groups)[2]), Tail(groups))

AfterCleaning == << df0, df1 >>
Windows == << train_sets, test_sets, train_set_start, train_set_end,
              test_set_start, test_set_end >>
Bags == << cursor, rng, random_feature_bags >>
Results == << res, avg_r2s, r2_to_bags, best_bags >>

DedupDoneAnyway(st) ==
    /\ out' = st.out
    /\ df' = Rename(st.df, "pOpen", "p")
    /\ pc' = "pvolume"

\* the end of cell 3: the rename, unless a lookup of the loop has raised
DedupDone(st) ==
    /\ out' = st.out
    /\ IF st.ok
       THEN df' = Rename(st.df, "pOpen", "p") /\ pc' = "pvolume"
       ELSE df' = st.df /\ pc' = "failed"

\* cell 3: drop the columns identical to their reference, rename pOpen to p
DedupCell ==
    /\ pc = "dedup"
    /\ DedupDone(DedupAll([df |-> df, out |-> out, ok |-> TRUE], identical_columns))
    /\ UNCHANGED << input, oracle, AfterCleaning, Windows, Bags, Results >>

\* cell 4: drop pVolume when it is 0 on every row
PVolumeCell ==
    /\ pc = "pvolume"
    /\ IF ~HasCols(df, {"pVolume"})
       THEN pc' = "failed" /\ UNCHANGED << df, out >>
       ELSE /\ pc' = "ffill"
            /\ IF AllValue(df, "pVolume", 0)
               THEN /\ out' = Append(out, "removing pVolume (all values are 0)")
                    /\ df' = Drop(df, {"pVolume"})
               ELSE UNCHANGED << df, out >>
    /\ UNCHANGED << input, oracle, AfterCleaning, Windows, Bags, Results >>

\* ['p'] + the columns whose name starts with 'pSma'
pSma_cols(t) ==
    << "p" >> \o Filter(t.columns, { c \in Range(t.columns) : ~StartsWith(c, "pSma") })

FfillPrevious(t, c) ==
    [i \in DOMAIN t.index |->
        IF t.data[c][i] = 0 /\ i > 1 THEN t.data[c][i - 1] ELSE t.data[c][i]]

\* t[c].replace(to_replace = 0, method = 'ffill'): a 0 takes the value of the
\* nearest earlier row that is not 0, and stays 0 when there is none
Ffill(t, c) ==
    [i \in DOMAIN t.index |->
        IF t.data[c][i] = 0 /\ \E j \in 1..(i-1) : t.data[c][j] # 0
        THEN t.data[c][CHOOSE j \in 1..(i-1) :
                          t.data[c][j] # 0 /\ \A h \in (j+1)..(i-1) : t.data[c][h] = 0]
        ELSE t.data[c][i]]

\* cell 5: df0 is df with p and the pSma columns forward-filled
FfillCell ==
    /\ pc = "ffill"
    /\ IF ~HasCols(df, {"p"})
       THEN pc' = "failed" /\ UNCHANGED df0
       ELSE /\ pc' = "historical"
            /\ df0' = [df EXCEPT !.data = [c \in Range(df.columns) |->
                          IF c \in Range(pSma_cols(df)) THEN Ffill(df, c) ELSE df.data[c]]]
    /\ UNCHANGED << input, oracle, df, out, df1, Windows, Bags, Results >>

k == 5
feature_to_historize == << "p", "sentiment" >>

\* the names feat_minus_1 .. feat_minus_(k-1)
HistNames(feat) == [i \in 1..(k-1) |-> feat \o "_minus_" \o Str(i)]

\* cell 6: df1 is df0 plus the lagged copies of p and sentiment
HistoricalCell ==
    /\ pc = "historical"
    /\ IF ~HasCols(df0, Range(feature_to_historize))
       THEN pc' = "failed" /\ UNCHANGED df1
       ELSE /\ pc' = "dropsma"
            /\ LET names == HistNames(feature_to_historize[1]) \o HistNames(feature_to_historize[2])
                   historical_columns ==
                       [c \in Range(names) |->
                           LET f == IF c \in Range(HistNames(feature_to_historize[1])) THEN 1 ELSE 2
                               i == IndexOf(HistNames(feature_to_historize[f]), c)
                           IN  Shift(df0, feature_to_historize[f], i)]
               IN  df1' = Concat(df0, names, historical_columns)
    /\ UNCHANGED << input, oracle, df, out, df0, Windows, Bags, Results >>

\* cell 7: drop pSma_3 and sSma_3
DropSmaCell ==
    /\ pc = "dropsma"
    /\ IF ~HasCols(df1, {"pSma_3", "sSma_3"})
       THEN pc' = "failed" /\ UNCHANGED df1
       ELSE pc' = "dummy" /\ df1' = Drop(df1, {"pSma_3", "sSma_3"})
    /\ UNCHANGED << input, oracle, df, out, df0, Windows, Bags, Results >>

FloatInverted(b) == IF b THEN 0 ELSE 1

\* float(boolean)
Float(b) == IF b THEN 1 ELSE 0

\* cell 8: replace match by the two columns match and nomatch
DummyCell ==
    /\ pc = "dummy"
    /\ IF ~HasCols(df1, {"match"})
       THEN pc' = "failed" /\ UNCHANGED df1
       ELSE /\ pc' = "label"
            /\ LET match_feature   == [i \in DOMAIN df1.index |-> Float(df1.data["match"][i])]
                   nomatch_feature == [i \in DOMAIN df1.index |-> Float(~df1.data["match"][i])]
               IN  df1' = Concat(Drop(df1, {"match"}), << "match", "nomatch" >>,
                                 [c \in {"match", "nomatch"} |->
                                     IF c = "match" THEN match_feature ELSE nomatch_feature])
    /\ UNCHANGED << input, oracle, df, out, df0, Windows, Bags, Results >>

\* cell 9: attach the target p_plus_1, the p of the next row
LabelCell ==
    /\ pc = "label"
    /\ pc' = "dropna"
    /\ df1' = Concat(df1, << "p_plus_1" >>, [c \in {"p_plus_1"} |-> Shift(df1, "p", -1)])
    /\ UNCHANGED << input, oracle, df, out, df0, Windows, Bags, Results >>

\* cell 10: drop the rows with an undefined lag or target
DropnaCell ==
    /\ pc = "dropna"
    /\ pc' = "windows"
    /\ df1' = Dropna(df1)
    /\ UNCHANGED << input, oracle, df, out, df0, Windows, Bags, Results >>

(***************************** window generator ****************************)
train_set_size == 20 * 7
test_set_size == 2 * 7
sliding_offset == 1

\* cell 12, before the loop
WindowInit ==
    /\ pc = "windows"
    /\ pc' = "while"
    /\ train_sets' = << >>
    /\ test_sets' = << >>
    /\ train_set_start' = 0
    /\ train_set_end' = 0 + train_set_size
    /\ test_set_start' = 0 + train_set_size
    /\ test_set_end' = 0 + train_set_size + test_set_size
    /\ UNCHANGED << input, oracle, df, out, AfterCleaning, Bags, Results >>

WhileCondInclusive == test_set_end <= Len(df1.index)

WhileCondStart == test_set_start < Len(df1.index)

\* the loop test of cell 12
WhileCond == test_set_end < Len(df1.index)

\* cell 12, one iteration of the loop
WindowStep ==
    /\ pc = "while"
    /\ WhileCond
    /\ train_sets' = Append(train_sets, Slice(df1, train_set_start, train_set_end))
    /\ test_sets' = Append(test_sets, Slice(df1, test_set_start, test_set_end))
    /\ train_set_start' = train_set_start + sliding_offset
    /\ train_set_end' = train_set_end + sliding_offset
    /\ test_set_start' = test_set_start + sliding_offset
    /\ test_set_end' = test_set_end + sliding_offset
    /\ UNCHANGED << input, oracle, pc, df, out, AfterCleaning, Bags, Results >>

\* cell 12, the loop test fails
WindowExit ==
    /\ pc = "while"
    /\ ~WhileCond
    /\ pc' = "bags"
    /\ UNCHANGED << input, oracle, df, out, AfterCleaning, Windows, Bags, Results >>

(***************************** dicts ***************************************)
\* a dict is the sequence of its <<key, value>> items in insertion order
DictKeys(d) == [i \in DOMAIN d |-> d[i][1]]

DictValues(d) == [i \in DOMAIN d |-> d[i][2]]

DictHas(d, key) == \E i \in DOMAIN d : d[i][1] = key

DictGet(d, key) == d[CHOOSE i \in DOMAIN d : d[i][1] = key][2]

\* d[key] = val
DictSet(d, key, val) ==
    IF DictHas(d, key)
    THEN [i \in DOMAIN d |-> IF d[i][1] = key THEN << d[i][1], val >> ELSE d[i]]
    ELSE Append(d, << key, val >>)

(***************************** feature bags ********************************)
NumRandomBags == 20
BagSize == 10

\* the generator's next state; a draw from 0..i is the state modulo i+1
NextRng(g) == (g * 75 + 74) % 65537

SwapLost(x, a, b) == [x EXCEPT ![a] = x[b]]

\* x with the elements at positions a and b (1-based) exchanged
Swap(x, a, b) == [x EXCEPT ![a] = x[b], ![b] = x[a]]

RECURSIVE ShuffleFrom(_, _, _)
\* np.random.shuffle: for i = n-1 down to 1, swap x[i] with x[j], j drawn from
\* 0..i (positions 0-based); yields the shuffled array and the generator state
ShuffleFrom(x, g, i) ==
    IF i < 1 THEN [array |-> x, rng |-> g]
    ELSE ShuffleFrom(Swap(x, i + 1, (NextRng(g) % (i + 1)) + 1), NextRng(g), i - 1)

Shuffle(x, g) == ShuffleFrom(x, g, Len(x) - 1)

\* copy[:n]
Prefix(x, n) == SubSeq(x, 1, Min(n, Len(x)))

\* cell 15, before the loop
RandomBagsInit ==
    /\ pc = "bags"
    /\ IF ~HasCols(df1, {"date", "p_plus_1"})
       THEN pc' = "failed" /\ UNCHANGED << cursor, random_feature_bags >>
       ELSE pc' = "bagloop" /\ cursor' = 0 /\ random_feature_bags' = << >>
    /\ UNCHANGED << input, oracle, df, out, AfterCleaning, Windows, rng, Results >>

available_features == Drop(df1, {"date", "p_plus_1"}).columns

BagStored(i, sh) ==
    /\ random_feature_bags' = DictSet(random_feature_bags, "bag" \o Str(i), Prefix(sh.array, BagSize))
    /\ rng' = sh.rng

\* cell 15, one turn of the loop: bag<i> is the first 10 of a shuffled copy
RandomBagStep ==
    /\ pc = "bagloop"
    /\ cursor < NumRandomBags
    /\ BagStored(cursor, Shuffle(available_features, rng))
    /\ cursor' = cursor + 1
    /\ pc' = IF cursor + 1 < NumRandomBags THEN "bagloop" ELSE "basebags"
    /\ UNCHANGED << input, oracle, df, out, AfterCleaning, Windows, Results >>

BaseBags ==
    << << "baseBag0", << "p" >> >>,
       << "baseBag1", << "sentiment" >> >>,
       << "baseBag2", << "p", "p_minus_1" >> >>,
       << "baseBag3", << "p", "sentiment" >> >>,
       << "baseBag4", << "p", "p_minus_1", "sentiment" >> >>,
       << "baseBag5", << "p", "p_minus_1", "sBuzz", "sentiment" >> >>,
       << "baseBag6", << "p", "p_minus_1", "sBuzz", "sentiment", "sVolume" >> >> >>

RECURSIVE DictSetAll(_, _)
DictSetAll(d, items) ==
    IF items = << >> THEN d
    ELSE DictSetAll(DictSet(d, Head(items)[1], Head(items)[2]), Tail(items))

\* cell 17: the seven baseline bags
BaseBagsCell ==
    /\ pc = "basebags"
    /\ pc' = "eval"
    /\ random_feature_bags' = DictSetAll(random_feature_bags, BaseBags)
    /\ UNCHANGED << input, oracle, df, out, AfterCleaning, Windows, cursor, rng, Results >>

(***************************** evaluation **********************************)
\* the candidate alphas, in units of 0.0001
alphas == << 1, 10, 100, 1000, 10000, 200000, 1000000, 100000000 >>

Families == << "ols", "bayesian", "ridge" >>

\* np.average of a list of scores: the sum over the count (0/0 is NaN)
Average(r2s) == << SeqSum(r2s), Len(r2s) >>

IsNaN(a) == a[2] = 0

\* a > b, a == b and a < b on averages; every comparison with NaN is false
Greater(a, b) == ~IsNaN(a) /\ ~IsNaN(b) /\ a[1] * b[2] > b[1] * a[2]
Equal(a, b) == ~IsNaN(a) /\ ~IsNaN(b) /\ a[1] * b[2] = b[1] * a[2]
Less(a, b) == Greater(b, a)

\* what the library sees of a table restricted to a bag and a slice
FeatureCode(bag) == SeqSum([i \in DOMAIN bag |-> IndexOf(df1.columns, bag[i])])
SliceCode(rows) == IF rows = << >> THEN 0 ELSE Head(rows) + Len(rows)

\* estimator.fit(train_X, train_Y): the estimator as fitted on the columns
\* train_X of a slice
Fit(family, alpha_index, train_X, train_rows) ==
    [family |-> family, alpha_index |-> alpha_index,
     features |-> train_X, train |-> SliceCode(train_rows)]

\* estimator.score(test_X, test_Y): the R2 of the fitted estimator on a slice,
\* a function of the data it was fitted on and is scored on; oracle selects
\* which function
Score(fitted, test_rows) ==
    ((fitted.features * (oracle + 1)) % 4)
    + ((IndexOf(Families, fitted.family) * (2 * oracle + fitted.features + 1)
        + 2 * fitted.features) % 4)
    + ((fitted.alpha_index * (oracle + fitted.features)) % 3)
    + ((fitted.train + SliceCode(test_rows) + fitted.features) % 3)
    - 4

R2sOnFirstTest(family, alpha_index, X) ==
    [i \in 1..Len(train_sets) |->
        Score(Fit(family, alpha_index, X, train_sets[i]), test_sets[1])]

\* the inner loop over the window pairs: fit on train_sets[i], score on test_sets[i]
R2sOn(family, alpha_index, X) ==
    [i \in 1..Len(train_sets) |->
        Score(Fit(family, alpha_index, X, train_sets[i]), test_sets[i])]

R2s(family, alpha_index, bag) == R2sOn(family, alpha_index, FeatureCode(bag))

RECURSIVE BestFrom(_, _, _)
\* the alpha selection loop: the running best index after indices best.., i ..
BestFrom(avgs, best, i) ==
    IF i > Len(avgs) THEN best
    ELSE IF Greater(avgs[i], avgs[best]) THEN BestFrom(avgs, i, i + 1)
         ELSE BestFrom(avgs, best, i + 1)

LastBestAlphaIndex(avgs) ==
    CHOOSE b \in DOMAIN avgs :
        /\ \A a \in DOMAIN avgs : ~Greater(avgs[a], avgs[b])
        /\ \A a \in (b + 1)..Len(avgs) : Greater(avgs[b], avgs[a])

\* best_alpha_index (1-based)
BestAlphaIndex(avgs) == BestFrom(avgs, 1, 1)

\* the averages of the ridge scores, one per candidate alpha
RidgeAverages(bag) == [a \in DOMAIN alphas |-> Average(R2s("ridge", a, bag))]

\* the results of one bag, given the ridge averages and the index chosen
BagResult(bag, avgs, best_alpha_index) ==
    [ols      |-> [avg_r2 |-> Average(R2s("ols", 0, bag))],
     bayesian |-> [avg_r2 |-> Average(R2s("bayesian", 0, bag))],
     ridge    |-> [avg_r2 |-> avgs[best_alpha_index],
                   best_alpha |-> alphas[best_alpha_index]]]

\* train_df[bag] raises when a feature of the bag is no column
Selectable(bag) == Len(train_sets) = 0 \/ HasCols(df1, Range(bag))

\* cell 18, before the loop
EvalInit ==
    /\ pc = "eval"
    /\ pc' = IF random_feature_bags = << >> THEN "bestmodel" ELSE "evalloop"
    /\ cursor' = 0
    /\ res' = << >>
    /\ UNCHANGED << input, oracle, df, out, AfterCleaning, Windows, rng,
                    random_feature_bags, avg_r2s, r2_to_bags, best_bags >>

EvalBag(key, bag, avgs) ==
    /\ res' = DictSet(res, key, BagResult(bag, avgs, BestAlphaIndex(avgs)))
    /\ avg_r2s' = avgs

\* cell 18, one turn of the loop over the items of random_feature_bags: the
\* three model families on one bag and every window pair
EvalStep ==
    /\ pc = "evalloop"
    /\ cursor < Len(random_feature_bags)
    /\ IF Selectable(random_feature_bags[cursor + 1][2])
       THEN /\ EvalBag(random_feature_bags[cursor + 1][1],
                       random_feature_bags[cursor + 1][2],
                       RidgeAverages(random_feature_bags[cursor + 1][2]))
            /\ cursor' = cursor + 1
            /\ pc' = IF cursor + 1 < Len(random_feature_bags) THEN "evalloop" ELSE "bestmodel"
       ELSE pc' = "failed" /\ UNCHANGED << cursor, res, avg_r2s >>
    /\ UNCHANGED << input, oracle, df, out, AfterCleaning, Windows, rng,
                    random_feature_bags, r2_to_bags, best_bags >>

(***************************** ranking *************************************)
BestModelLastWins(modelDict) ==
    IF ~Greater(modelDict.ols.avg_r2, modelDict.bayesian.avg_r2)
       /\ ~Greater(modelDict.ridge.avg_r2, modelDict.bayesian.avg_r2) THEN "bayesian"
    ELSE IF ~Greater(modelDict.ols.avg_r2, modelDict.ridge.avg_r2) THEN "ridge" ELSE "ols"

\* the body of the loop of cell 20: ols, unless ridge is strictly better, unless
\* bayesian is strictly better than the better of the two
BestModel(modelDict) ==
    LET after_ridge == IF Greater(modelDict.ridge.avg_r2, modelDict.ols.avg_r2)
                       THEN "ridge" ELSE "ols"
    IN  IF Greater(modelDict.bayesian.avg_r2, modelDict[after_ridge].avg_r2)
        THEN "bayesian" ELSE after_ridge

\* cell 20: the best family of every bag
BestModelCell ==
    /\ pc = "bestmodel"
    /\ pc' = "rank"
    /\ res' = [i \in DOMAIN res |->
                  << res[i][1],
                     [m \in {"ols", "bayesian", "ridge", "best_model"} |->
                         IF m = "best_model" THEN BestModel(res[i][2]) ELSE res[i][2][m]] >>]
    /\ UNCHANGED << input, oracle, df, out, AfterCleaning, Windows, Bags,
                    avg_r2s, r2_to_bags, best_bags >>

\* the best score of a bag of res
BestR2(modelDict) == modelDict[modelDict.best_model].avg_r2

\* r2_to_bags[bag_r2] = bag, the keys compared as floats (NaN equals nothing)
R2Set(d, bag_r2, bag) ==
    IF \E i \in DOMAIN d : Equal(d[i][1], bag_r2)
    THEN [i \in DOMAIN d |-> IF Equal(d[i][1], bag_r2) THEN << d[i][1], bag >> ELSE d[i]]
    ELSE Append(d, << bag_r2, bag >>)

RECURSIVE R2ToBags(_, _)
\* the first loop of cell 21 over the items of res
R2ToBags(d, items) ==
    IF items = << >> THEN d
    ELSE R2ToBags(R2Set(d, BestR2(Head(items)[2]), Head(items)[1]), Tail(items))

InsertAsc(sorted, item) ==
    IF \E i \in DOMAIN sorted : Greater(sorted[i][1], item[1])
    THEN << item >> \o sorted ELSE Append(sorted, item)

\* insert an item into a list sorted by decreasing key, after the items whose
\* key is not less than its own
InsertDesc(sorted, item) ==
    LET smaller == { i \in DOMAIN sorted : Less(sorted[i][1], item[1]) }
        at == IF smaller = {} THEN Len(sorted) + 1
              ELSE CHOOSE i \in smaller : \A j \in smaller : i <= j
    IN  SubSeq(sorted, 1, at - 1) \o << item >> \o SubSeq(sorted, at, Len(sorted))

RECURSIVE SortedDesc(_)
\* sorted(items by key, reverse = True)
SortedDesc(items) ==
    IF items = << >> THEN << >>
    ELSE InsertDesc(SortedDesc(SubSeq(items, 1, Len(items) - 1)), items[Len(items)])

\* cell 21: the bags by decreasing best score
RankCell ==
    /\ pc = "rank"
    /\ pc' = "done"
    /\ r2_to_bags' = R2ToBags(<< >>, res)
    /\ best_bags' = DictValues(SortedDesc(r2_to_bags'))
    /\ UNCHANGED << input, oracle, df, out, AfterCleaning, Windows, Bags, res, avg_r2s >>

(***************************** the run *************************************)
LargeRows == train_set_size + test_set_size + k

\* the number of days from 18 March 2016 to 23 September 2016
DescribedRows == 14 + 30 + 31 + 30 + 31 + 31 + 23

FocusColumns == Range(InputColumns) \ {"date"}

\* the rows lo .. hi-1
Interval(lo, hi) == { r \in 0..hi : lo <= r /\ r < hi }

Start(table, seed, orc) ==
    /\ input = table
    /\ df = table
    /\ out = << >>
    /\ pc = "dedup"
    /\ df0 = EmptyTable
    /\ df1 = EmptyTable
    /\ train_sets = << >>
    /\ test_sets = << >>
    /\ train_set_start = 0
    /\ train_set_end = 0
    /\ test_set_start = 0
    /\ test_set_end = 0
    /\ cursor = 0
    /\ rng = seed
    /\ random_feature_bags = << >>
    /\ oracle = orc
    /\ res = << >>
    /\ avg_r2s = << >>
    /\ r2_to_bags = << >>
    /\ best_bags = << >>

\* short tables with one column irregular on a run of rows
InitShort ==
    \E n \in 0..MaxRows, same \in BOOLEAN, focus \in FocusColumns :
        \E lo \in 0..n, hi \in 0..n :
            Start(InputTable(n, same, same, focus, Interval(lo, hi)), 0, 0)

\* tables of a few more rows than the lags need, with missing prices or
\* irregular sentiments on one row or two rows in a row
InitMedium ==
    \E n \in (k + 1)..(k + MaxRows), focus \in {"pOpen", "sentiment"} :
        \E lo \in 0..n, hi \in 0..n :
            /\ hi <= lo + 2
            /\ Start(InputTable(n, FALSE, FALSE, focus, Interval(lo, hi)), 0, 0)

\* the columns the cells refer to by name
NamedColumns ==
    {"pOpen", "sentiment", "pVolume", "pSma_3", "sSma_3", "match"}
        \cup PCandidates \cup SCandidates

\* regular short tables that lack one of the named columns
InitMissing ==
    \E n \in 0..MaxRows, same \in BOOLEAN, c \in NamedColumns :
        Start(Drop(InputTable(n, same, same, "date", {}), {c}), 0, 0)

\* regular tables long enough for lo .. MaxWindows window pairs
InitLong(lo) ==
    \E w \in lo..MaxWindows, sSame \in BOOLEAN, seed \in 0..MaxSeed, orc \in 0..MaxOracle :
        Start(InputTable(LargeRows + w, TRUE, sSame, "date", {}), seed, orc)

\* the table the notebook describes
InitDescribed == Start(InputTable(DescribedRows, TRUE, FALSE, "date", {}), 0, 1)

\* regular tables long enough for 0 .. MaxWindows window pairs, scored by the
\* first oracle
InitPlain ==
    \E w \in 0..MaxWindows, sSame \in BOOLEAN, seed \in 0..MaxSeed :
        Start(InputTable(LargeRows + w, TRUE, sSame, "date", {}), seed, 0)

Init == InitShort \/ InitMedium \/ InitMissing \/ InitPlain \/ InitDescribed

\* the runs in which the window generator emits at least one pair
InitEval == InitLong(1) \/ InitDescribed

Next ==
    \/ DedupCell
    \/ PVolumeCell
    \/ FfillCell
    \/ HistoricalCell
    \/ DropSmaCell
    \/ DummyCell
    \/ LabelCell
    \/ DropnaCell
    \/ WindowInit
    \/ WindowStep
    \/ WindowExit
    \/ RandomBagsInit
    \/ RandomBagStep
    \/ BaseBagsCell
    \/ EvalInit
    \/ EvalStep
    \/ BestModelCell
    \/ RankCell

Spec == Init /\ [][Next]_vars

SpecEval == InitEval /\ [][Next]_vars

\* regular tables of every length class: too short for the lags, too short
\* for a window pair, and long enough for 0 .. MaxWindows and for 31 pairs
InitLoop ==
    \/ \E n \in (0..MaxRows) \cup ((k + 1)..(k + MaxRows)) :
           Start(InputTable(n, FALSE, FALSE, "date", {}), 0, 0)
    \/ \E w \in 0..MaxWindows :
           Start(InputTable(LargeRows + w, TRUE, FALSE, "date", {}), 0, 0)
    \/ InitDescribed

\* a run that is in the loop of cell 12 goes on with it: the interpreter
\* evaluates the loop test and runs the body or leaves the loop
SpecFair == InitLoop /\ [][Next]_vars /\ WF_vars(WindowStep) /\ WF_vars(WindowExit)

(***************************** properties **********************************)
\* the run is past the window generator (cell 12)
PastWindows ==
    pc \in { "bags", "bagloop", "basebags", "eval", "evalloop", "bestmodel", "rank", "done" }

\* the run is past the random bags (cell 15)
PastBags == pc \in { "basebags", "eval", "evalloop", "bestmodel", "rank", "done" }

\* the run is past the deduplication (cells 3 and 4) and has not failed
PastDedup == pc \notin { "dedup", "pvolume", "failed" }

\* the number of rows of the cleaned table
N == Len(df1.index)

\* rows [i, i + 140) and [i + 140, i + 154) of the cleaned table, i 0-based
TrainRows(i) == SubSeq(df1.index, i + 1, i + train_set_size)
TestRows(i) == SubSeq(df1.index, i + train_set_size + 1, i + train_set_size + test_set_size)

\* C1 as stated: for N >= 154 the window generator produces exactly
\* floor((N - 140 - 14) / 1) + 1 train/test pairs
C1_CountAsStated ==
    (PastWindows /\ N >= train_set_size + test_set_size) =>
        /\ Len(train_sets) = ((N - train_set_size - test_set_size) \div sliding_offset) + 1
        /\ Len(test_sets) = ((N - train_set_size - test_set_size) \div sliding_offset) + 1

\* C1 amended: for N >= 154 the window generator produces exactly
\* floor((N - 140 - 14) / 1) = N - 154 train/test pairs (the pair whose test
\* slice would end at the last row is not produced)
C1_Count ==
    (PastWindows /\ N >= train_set_size + test_set_size) =>
        /\ Len(train_sets) = (N - train_set_size - test_set_size) \div sliding_offset
        /\ Len(test_sets) = (N - train_set_size - test_set_size) \div sliding_offset

C1_Witness == PastWindows /\ N > train_set_size + test_set_size /\ Len(train_sets) >= 1

\* C2: the i-th pair (0-based) is train rows [i, i+140) and test rows
\* [i+140, i+154) of the cleaned table; the two slices of a pair share no row
\* and consecutive pairs are one row apart
C2_Slices ==
    /\ Len(train_sets) = Len(test_sets)
    /\ \A i \in DOMAIN train_sets :
        /\ train_sets[i] = TrainRows(i - 1)
        /\ test_sets[i] = TestRows(i - 1)
        /\ Head(test_sets[i]) = df1.index[IndexOf(df1.index, train_sets[i][Len(train_sets[i])]) + 1]
        /\ Range(train_sets[i]) \cap Range(test_sets[i]) = {}
        /\ i > 1 => /\ IndexOf(df1.index, Head(train_sets[i]))
                        = IndexOf(df1.index, Head(train_sets[i - 1])) + 1
                    /\ IndexOf(df1.index, Head(test_sets[i]))
                        = IndexOf(df1.index, Head(test_sets[i - 1])) + 1

C2_Witness == PastWindows /\ Len(train_sets) >= 2

\* C3: the described input of 190 rows leaves 185 rows after the edge rows
\* are dropped, and gives 31 train sets and 31 test sets
C3_Described ==
    (PastWindows /\ Len(input.index) = DescribedRows) =>
        /\ N = 185
        /\ Len(train_sets) = 31
        /\ Len(test_sets) = 31

C3_Witness == PastWindows /\ Len(input.index) = DescribedRows /\ DescribedRows = 190


\* a >= b on averages
AtLeast(a, b) == ~IsNaN(a) /\ ~IsNaN(b) /\ a[1] * b[2] >= b[1] * a[2]

\* the score of the estimator of a family (and alpha) fitted on train rows
\* [i, i+140) and scored on test rows [i+140, i+154) of the cleaned table
PairScore(family, alpha_index, bag, i) ==
    Score(Fit(family, alpha_index, FeatureCode(bag), TrainRows(i)), TestRows(i))

\* the mean of one such score per window pair
PairMean(family, alpha_index, bag) ==
    << SeqSum([i \in 1..Len(train_sets) |-> PairScore(family, alpha_index, bag, i - 1)]),
       Len(train_sets) >>

PairMeans(bag) == [a \in DOMAIN alphas |-> PairMean("ridge", a, bag)]

C4_Bag(key, result) ==
    /\ result.ols.avg_r2 = PairMean("ols", 0, DictGet(random_feature_bags, key))
    /\ result.bayesian.avg_r2 = PairMean("bayesian", 0, DictGet(random_feature_bags, key))
    /\ \E a \in DOMAIN alphas :
        /\ alphas[a] = result.ridge.best_alpha
        /\ result.ridge.avg_r2 = PairMean("ridge", a, DictGet(random_feature_bags, key))

\* C4: every stored average R2 (ols, bayesian, ridge at the chosen alpha, and
\* the ridge averages of all candidate alphas) is the mean of one score per
\* window pair, score i from the fit on train slice i scored on test slice i
C4_Averages ==
    /\ \A n \in DOMAIN res : C4_Bag(res[n][1], res[n][2])
    /\ (pc \in {"evalloop", "bestmodel", "rank", "done"} /\ res # << >>) =>
           avg_r2s = PairMeans(DictGet(random_feature_bags, res[Len(res)][1]))

C4_Witness ==
    /\ pc = "bestmodel"
    /\ Len(train_sets) >= 2
    /\ Len(res) = NumRandomBags + Len(BaseBags)
    /\ \E n \in DOMAIN res : res[n][2].ols.avg_r2 # res[1][2].ols.avg_r2

C5_Bag(result, means) ==
    \E b \in DOMAIN alphas :
        /\ alphas[b] = result.ridge.best_alpha
        /\ result.ridge.avg_r2 = means[b]
        /\ \A a \in DOMAIN alphas : AtLeast(means[b], means[a])
        /\ \A a \in 1..(b - 1) : Greater(means[b], means[a])

\* C5: best_alpha is a candidate whose average R2 is at least that of every
\* other candidate, the stored ridge avg_r2 is that candidate's average, and
\* among the candidates with the highest average the earliest is chosen
C5_BestAlpha ==
    \A n \in DOMAIN res :
        \A means \in { PairMeans(DictGet(random_feature_bags, res[n][1])) } :
            C5_Bag(res[n][2], means)

C5_TieBag(result, means) ==
    /\ result.ridge.best_alpha # alphas[1]
    /\ \E a \in DOMAIN alphas :
        alphas[a] # result.ridge.best_alpha /\ Equal(means[a], result.ridge.avg_r2)

C5_Witness ==
    \E n \in DOMAIN res :
        \E means \in { PairMeans(DictGet(random_feature_bags, res[n][1])) } :
            C5_TieBag(res[n][2], means)

C6_Bag(result) ==
    /\ result.best_model \in {"ols", "ridge", "bayesian"}
    /\ \A m \in {"ols", "ridge", "bayesian"} : AtLeast(BestR2(result), result[m].avg_r2)
    /\ Equal(result.ols.avg_r2, result.ridge.avg_r2) => result.best_model # "ridge"
    /\ Equal(result.ols.avg_r2, result.bayesian.avg_r2) => result.best_model # "bayesian"
    /\ Equal(result.ridge.avg_r2, result.bayesian.avg_r2) => result.best_model # "bayesian"

\* C6: best_model is ols, ridge or bayesian, its average R2 is at least that
\* of each family, and on equal scores ols wins over ridge and ridge over
\* bayesian
C6_BestModel ==
    pc \in {"rank", "done"} => \A n \in DOMAIN res : C6_Bag(res[n][2])

C6_Witness ==
    /\ pc = "rank"
    /\ \E n \in DOMAIN res :
        /\ res[n][2].best_model = "ridge"
        /\ Equal(res[n][2].ridge.avg_r2, res[n][2].bayesian.avg_r2)
    /\ \E n \in DOMAIN res :
        /\ res[n][2].best_model = "ols"
        /\ Equal(res[n][2].ols.avg_r2, res[n][2].ridge.avg_r2)
    /\ \E n \in DOMAIN res : res[n][2].best_model = "bayesian"

\* C7: best_bags is in non-increasing order of the bags' best scores
C7_Ordered ==
    pc = "done" =>
        \A i \in DOMAIN best_bags : \A j \in DOMAIN best_bags :
            i < j => AtLeast(BestR2(DictGet(res, best_bags[i])),
                             BestR2(DictGet(res, best_bags[j])))

C7_Witness ==
    /\ pc = "done"
    /\ Len(best_bags) >= 3
    /\ Greater(BestR2(DictGet(res, best_bags[1])), BestR2(DictGet(res, best_bags[Len(best_bags)])))

\* C8: best_bags holds each of the 27 evaluated bags exactly once
C8_Permutation ==
    pc = "done" =>
        /\ Len(best_bags) = NumRandomBags + Len(BaseBags)
        /\ Range(best_bags) = Range(DictKeys(random_feature_bags))
        /\ Cardinality(Range(best_bags)) = Len(best_bags)

C9_Bag(bag) ==
    /\ Len(bag) = 10
    /\ \A i \in DOMAIN bag : \A j \in DOMAIN bag : i # j => bag[i] # bag[j]
    /\ Range(bag) \subseteq Range(df1.columns)
    /\ "date" \notin Range(bag)
    /\ "p_plus_1" \notin Range(bag)

\* C9: each of bag0 .. bag19 holds exactly 10 pairwise distinct columns of
\* the cleaned table, none of them date or p_plus_1
C9_RandomBags ==
    PastBags => \A i \in 0..19 :
        /\ DictHas(random_feature_bags, "bag" \o Str(i))
        /\ C9_Bag(DictGet(random_feature_bags, "bag" \o Str(i)))

C9_Witness ==
    /\ PastBags
    /\ Len(df1.columns) > 12
    /\ DictGet(random_feature_bags, "bag0") # DictGet(random_feature_bags, "bag1")
    /\ DictGet(random_feature_bags, "bag0") # SubSeq(available_features, 1, 10)

\* column c holds the same value as column ref on every row of the input
SameInInput(ref, c) == \A i \in DOMAIN input.index : input.data[c][i] = input.data[ref][i]

ZeroInInput(c) == \A i \in DOMAIN input.index : input.data[c][i] = 0

\* the notices a run must print: one per candidate that duplicates its reference
DueNotices ==
    { "removing " \o c \o "(same as pOpen)" : c \in { x \in PCandidates : SameInInput("pOpen", x) } }
    \cup { "removing " \o c \o "(same as sentiment)" :
              c \in { x \in SCandidates : SameInInput("sentiment", x) } }
    \cup (IF ZeroInInput("pVolume") THEN { "removing pVolume (all values are 0)" } ELSE {})

\* C10: after cells 3 and 4 a candidate column is absent exactly when it
\* equalled its reference on every input row, pVolume exactly when it was 0 on
\* every row, the references are kept, and the notices printed are one per
\* dropped column
C10_Dedup ==
    PastDedup =>
        /\ \A c \in PCandidates : (c \notin Range(df.columns)) <=> SameInInput("pOpen", c)
        /\ \A c \in SCandidates : (c \notin Range(df.columns)) <=> SameInInput("sentiment", c)
        /\ ("pVolume" \notin Range(df.columns)) <=> ZeroInInput("pVolume")
        /\ "p" \in Range(df.columns) /\ df.data["p"] = input.data["pOpen"]
        /\ "sentiment" \in Range(df.columns) /\ df.data["sentiment"] = input.data["sentiment"]
        /\ Range(out) = DueNotices
        /\ Len(out) = Cardinality(DueNotices)

C10_Witness ==
    /\ PastDedup
    /\ Len(input.index) >= 2
    /\ \E c \in SCandidates :
        /\ c \in Range(df.columns)
        /\ \E i \in DOMAIN input.index : input.data[c][i] = input.data["sentiment"][i]
    /\ \E c \in SCandidates : c \notin Range(df.columns)
    /\ out # << >>

\* the forward fill (cell 5) has run
PastFfill == df0 # EmptyTable

\* the name a column of the tables had in the input
InputName(c) == IF c = "p" THEN "pOpen" ELSE c

\* the columns the forward fill is about
Filled(c) == c = "p" \/ StartsWith(c, "pSma")

C11_Cell(c, i, was) ==
    IF Filled(c) /\ was[i] = 0
    THEN /\ (\A j \in 1..(i - 1) : was[j] = 0) => df0.data[c][i] = 0
         /\ \A j \in 1..(i - 1) :
                (was[j] # 0 /\ \A h \in (j + 1)..(i - 1) : was[h] = 0)
                    => df0.data[c][i] = was[j]
    ELSE df0.data[c][i] = was[i]

\* C11: after the forward fill, in p and in the pSma columns a 0 holds the
\* value of the nearest earlier row that was not 0, a 0 without such a row is
\* still 0, and every other value of the table is the input's
C11_Ffill ==
    PastFfill =>
        /\ df0.columns = df.columns
        /\ df0.index = input.index
        /\ \A c \in Range(df0.columns) : \A i \in DOMAIN input.index :
               C11_Cell(c, i, input.data[InputName(c)])

C11_Witness ==
    /\ PastFfill
    /\ \E c \in {"p", "pSma_7"} :
        \E i \in DOMAIN input.index :
               /\ i > 2
               /\ input.data[InputName(c)][i] = 0
               /\ input.data[InputName(c)][i - 1] = 0
               /\ input.data[InputName(c)][i - 2] # 0
               /\ df0.data[c][i] = input.data[InputName(c)][i - 2]

\* the edge rows have been dropped (cell 10)
PastDropna == pc \in {"windows", "while"} \/ PastWindows

\* the row of label t (its position in the input, 0-based) at position pos of
\* the cleaned table: its lags and its target against the rows t-i and t+1
C12_Row(pos, t) ==
    /\ t - (k - 1) >= 0
    /\ t + 1 <= Len(input.index) - 1
    /\ \A i \in 1..(k - 1) :
        /\ df1.data[HistNames("p")[i]][pos] = df0.data["p"][t + 1 - i]
        /\ df1.data[HistNames("sentiment")[i]][pos] = input.data["sentiment"][t + 1 - i]
    /\ df1.data["p_plus_1"][pos] = df0.data["p"][t + 2]

\* C12: on every row t of the cleaned table p_minus_i is the forward-filled p
\* and sentiment_minus_i the sentiment of input row t-i (i in 1..4), p_plus_1
\* is the forward-filled p of input row t+1, and the first 4 rows and the last
\* row of the input are not in the cleaned table
C12_Lags ==
    PastDropna =>
        /\ \A pos \in DOMAIN df1.index : C12_Row(pos, df1.index[pos])
        /\ \A t \in Range(input.index) :
               (t < k - 1 \/ t = Len(input.index) - 1) => t \notin Range(df1.index)

C12_Witness ==
    /\ PastDropna
    /\ \E pos \in DOMAIN df1.index :
        /\ input.data["pOpen"][df1.index[pos]] = 0
        /\ df1.data["p_minus_1"][pos] # 0
        /\ df1.data["p_minus_1"][pos] = input.data["pOpen"][df1.index[pos] - 1]

\* the dummy encoding (cell 8) has run
PastDummy == "nomatch" \in Range(df1.columns)

\* C13: after the dummy encoding, on every row match and nomatch each hold 0.0
\* or 1.0 and exactly one of them holds 1.0: match when the input flag of the
\* row was true, nomatch when it was false
C13_Dummy ==
    PastDummy =>
        \A pos \in DOMAIN df1.index :
            /\ df1.data["match"][pos] \in {0, 1}
            /\ df1.data["nomatch"][pos] \in {0, 1}
            /\ df1.data["match"][pos] + df1.data["nomatch"][pos] = 1
            /\ (df1.data["match"][pos] = 1) <=> (input.data["match"][df1.index[pos] + 1] = TRUE)
            /\ (df1.data["nomatch"][pos] = 1) <=> (input.data["match"][df1.index[pos] + 1] = FALSE)

C13_Witness ==
    /\ pc = "label"
    /\ \E pos \in DOMAIN df1.index : df1.data["match"][pos] = 1
    /\ \E pos \in DOMAIN df1.index : df1.data["nomatch"][pos] = 1
    /\ \E pos \in DOMAIN df1.index :
           pos > 1 /\ df1.data["match"][pos] = df1.data["match"][pos - 1]

\* s is strictly increasing
Increasing(s) == \A i \in DOMAIN s : i > 1 => s[i - 1] < s[i]

\* the date of the input row of label t
InputDate(t) == input.data["date"][t + 1]

\* the rows of table t are rows of the input, each at most once, in the
\* input's order and with the input's date, the dates increasing
Chronological(t) ==
    /\ Increasing(t.index)
    /\ Range(t.index) \subseteq Range(input.index)
    /\ "date" \in Range(t.columns) =>
           /\ \A pos \in DOMAIN t.index : t.data["date"][pos] = InputDate(t.index[pos])
           /\ Increasing(t.data["date"])

\* the rows of a slice are rows of the cleaned table in increasing date order
ChronologicalSlice(rows) ==
    /\ Range(rows) \subseteq Range(df1.index)
    /\ Increasing([i \in DOMAIN rows |-> InputDate(rows[i])])

\* C14: when the input has one row per date in chronological order, so has
\* the table after every cell, and so has every train and every test slice
C14_Order ==
    Increasing(input.data["date"]) =>
        /\ Chronological(df)
        /\ Chronological(df0)
        /\ Chronological(df1)
        /\ \A i \in DOMAIN train_sets : ChronologicalSlice(train_sets[i])
        /\ \A i \in DOMAIN test_sets : ChronologicalSlice(test_sets[i])

C14_Witness ==
    /\ PastWindows
    /\ Len(input.index) >= 2
    /\ Increasing(input.data["date"])
    /\ Len(train_sets) >= 1
    /\ Len(test_sets) >= 1
    /\ Len(df1.index) < Len(input.index)
    /\ Len(df1.index) >= 2

\* the named columns the input lacks
MissingNamed == NamedColumns \ Range(input.columns)

\* the cells up to the last one that refers to an input column by name
CleaningSteps == << "dedup", "pvolume", "ffill", "historical", "dropsma", "dummy" >>

\* the first cell that refers to column c by name
FirstUse(c) ==
    CASE c = "pVolume" -> "pvolume"
      [] c \in {"pSma_3", "sSma_3"} -> "dropsma"
      [] c = "match" -> "dummy"
      [] OTHER -> "dedup"

\* the earliest cell that refers to a column the input lacks
FailingStep ==
    CHOOSE st \in { FirstUse(c) : c \in MissingNamed } :
        \A c \in MissingNamed : IndexOf(CleaningSteps, st) <= IndexOf(CleaningSteps, FirstUse(c))

\* C15: when the input lacks a column the cells name, the cells before the
\* first one that refers to it run, that cell fails, no cell runs after a
\* failure, and no model result and no ranking is ever produced
C15_Stops ==
    [][ /\ pc # "failed"
        /\ MissingNamed # {} =>
               /\ (pc' = "failed") <=> (pc = FailingStep)
               /\ res' = << >>
               /\ r2_to_bags' = << >>
               /\ best_bags' = << >> ]_vars

C15_Witness ==
    /\ pc = "failed"
    /\ MissingNamed = {"match"}
    /\ Len(input.index) >= 1
    /\ df0 # EmptyTable
    /\ res = << >>

\* what holds of the window generator in every state: the slices emitted are
\* whole (140 and 14 rows of the table), none is emitted when N <= 154, the
\* loop goes on only while the test end has not reached N and is left at the
\* first iteration where it has
C16_Safe ==
    /\ \A i \in DOMAIN train_sets : Len(train_sets[i]) = train_set_size
    /\ \A i \in DOMAIN test_sets :
        /\ Len(test_sets[i]) = test_set_size
        /\ Range(test_sets[i]) \subseteq Range(df1.index)
    /\ (pc = "while" \/ PastWindows) =>
        /\ N <= train_set_size + test_set_size => train_sets = << >> /\ test_sets = << >>
        /\ train_sets # << >> => test_set_end - sliding_offset < N
        /\ test_set_end = train_set_size + test_set_size + Len(train_sets) * sliding_offset
    /\ PastWindows => test_set_end >= N

\* C16: the window generator loop terminates for every N, at the first
\* iteration where the test end has reached N, having emitted only whole
\* slices inside the table, and none when N <= 154
C16_Terminates ==
    /\ []C16_Safe
    /\ (pc = "while") ~> (pc = "bags")

C16_Witness ==
    /\ pc = "bags"
    /\ Len(train_sets) >= 2
    /\ test_set_end = N
    /\ N > train_set_size + test_set_size

\* the bags are complete: the 20 random ones and the 7 baseline ones
BagsHanded == Len(random_feature_bags) = NumRandomBags + Len(BaseBags)

\* C17: every feature of every bag handed to the evaluation loop is a column
\* of the cleaned table, and the evaluation loop never fails on a missing
\* column
C17_BagsExist ==
    BagsHanded =>
        /\ \A n \in DOMAIN random_feature_bags :
               Range(random_feature_bags[n][2]) \subseteq Range(df1.columns)
        /\ pc # "failed"

====
